---- MODULE Spec2Model ----
(***************************************************************************)
(* Model of main_pandas.py: the module-level dataset pool loading, the     *)
(* strategies mapping and the __main__ dispatch loop that either registers *)
(* live strategies with the Trader or backtests them one after another.    *)
(* Calls into lumibot (Strategy.backtest, indicators.calculate_returns,    *)
(* strategy constructors, Trader.add_strategy, Trader.run_all) are         *)
(* recorded in the variable trace, in call order, with their arguments.    *)
(***************************************************************************)
EXTENDS Integers, Sequences, FiniteSets, TLC

(* ----------------------------- bounds ---------------------------------- *)
\* longest list of positional strategy names given on the command line
MaxLen == 3
\* last second the clock read by time() can show
MaxTime == 1
\* most seconds a performance counter accumulates
MaxElapsed == 1

(* ------------------------- global parameters --------------------------- *)
budget == 40000
backtesting_start == <<2019, 2, 28>>
backtesting_end == <<2019, 12, 1>>
benchmark_asset == "SPY"
alpaca_broker == "alpaca_broker"
tickers == <<"SPY", "DJP", "TLT", "GLD", "IEF">>
InitialLabel == "my_strategy"

\* names a user may type: the seven registry keys and one that is no key
RequestableNames ==
    {"momentum_pandas", "diversification", "debt_trading", "intraday_momentum",
     "fast_trading", "buy_and_hold", "simple", "no_such_strategy"}

\* the value of the mapping literal: "pool" is a reference to the dict created
\* at line 40, "None" is Python's None, a key left out is left out here
Registry ==
    [momentum_pandas |->
        [class |-> "Momentum", backtesting_datasource |-> "PandasDataBacktesting",
         kwargs |-> {<<"symbols", tickers>>}, config |-> "None",
         pandas_data |-> "pool"],
     diversification |->
        [class |-> "Diversification", backtesting_datasource |-> "PandasDataBacktesting",
         kwargs |-> {}, config |-> "None", pandas_data |-> "pool"],
     debt_trading |->
        [class |-> "DebtTrading", backtesting_datasource |-> "YahooDataBacktesting",
         kwargs |-> {}, config |-> "None", pandas_data |-> "None"],
     intraday_momentum |->
        [class |-> "IntradayMomentum", backtesting_datasource |-> "None",
         kwargs |-> {}, config |-> "None"],
     fast_trading |->
        [class |-> "FastTrading", backtesting_datasource |-> "None",
         kwargs |-> {}, backtesting_cache |-> FALSE, config |-> "None"],
     buy_and_hold |->
        [class |-> "BuyAndHold", backtesting_datasource |-> "PandasDataBacktesting",
         kwargs |-> {}, backtesting_cache |-> FALSE, config |-> "None",
         pandas_data |-> "pool"],
     simple |->
        [class |-> "Simple", backtesting_datasource |-> "PandasDataBacktesting",
         kwargs |-> {}, backtesting_cache |-> FALSE, config |-> "None",
         pandas_data |-> "pool"]]

(* ------------------------------ state ---------------------------------- *)
VARIABLES
    pc,                     \* position of the script
    exc,                    \* the exception that ended it, "none" while running
    loaded,                 \* tickers read so far by the loading loop
    pool,                   \* the dict of line 40: asset |-> Data.strategy label
    mapping,                \* the strategies mapping
    strategies,             \* args.strategies
    live_trading,           \* args.live_trading
    i,                      \* position of the for loop in strategies
    strategy_name,
    strategy_class,
    backtesting_datasource,
    pandas_data,            \* the module-level name pandas_data
    kwargs,
    config,
    stats_file,
    k,                      \* position of the label loop in pool.values()
    now,                    \* int(time())
    trace,                  \* calls made into lumibot so far
    runs,                   \* the execution runs created so far, one per dispatch
    counters                \* perf_counters.counters: name |-> seconds

vars == <<pc, exc, loaded, pool, mapping, strategies, live_trading, i,
          strategy_name, strategy_class, backtesting_datasource, pandas_data,
          kwargs, config, stats_file, k, now, trace, runs, counters>>

\* what lines 164-172 bind, and the record of the run they start
locals == <<strategy_class, backtesting_datasource, pandas_data, kwargs,
            config, stats_file, runs>>

(* ----------------------------- helpers --------------------------------- *)
RECURSIVE SeqsUpTo(_, _)
SeqsUpTo(S, n) ==
    IF n = 0 THEN {<< >>}
    ELSE LET shorter == SeqsUpTo(S, n - 1)
         IN  shorter \cup {Append(s, x) : s \in {t \in shorter : Len(t) = n - 1}, x \in S}

\* nargs="+": at least one positional name
ArgLists == {s \in SeqsUpTo(RequestableNames, MaxLen) : Len(s) >= 1}

\* what mapping.get returns for a name that is no key (Python's None, as a
\* record so that it compares with the entries)
NoEntry == [NoneType |-> TRUE]

\* mapping.get(strategy_name): the entry, or None for a name that is no key
MappingGet(m, name) == IF name \in DOMAIN m THEN m[name] ELSE NoEntry

\* faulty variant of PandasDataOf: the entry's pool is looked up through the
\* module-level name, so a None bound to it by an earlier dispatch is what a
\* later dispatch gets
PandasDataOf_Leaking(params) ==
    IF "pandas_data" \in DOMAIN params /\ pandas_data # "None"
    THEN params["pandas_data"]
    ELSE "None"

\* strategy_params["pandas_data"] if "pandas_data" in strategy_params else None
PandasDataOf(params) ==
    IF "pandas_data" \in DOMAIN params THEN params["pandas_data"] ELSE "None"

\* faulty variant of StatsFile: the timestamp is left out of the name
StatsFile_NoTimestamp(className, t) ==
    "logs/strategy_" \o className \o ".csv"

\* f"logs/strategy_{strategy_class.__name__}_{int(time())}.csv"
StatsFile(className, t) ==
    "logs/strategy_" \o className \o "_" \o ToString(t) \o ".csv"

\* the label written by line 190
NewLabel(name) == name

\* the arguments of strategy_class.backtest(...), lines 193-203
BacktestArgs(name, ds, pdata, labels, sfile, cfg, kw) ==
    [budget |-> budget, datasource |-> ds,
     start |-> backtesting_start, end |-> backtesting_end,
     pandas_data |-> pdata, labels |-> labels, stats_file |-> sfile,
     config |-> cfg, kwargs |-> kw]

\* faulty variant of BenchmarkArgs: the benchmark is computed over the datasets' own
\* date range instead of the backtest window
BenchmarkArgs_DataRange == [start |-> <<2019, 1, 6>>, end |-> <<2019, 12, 15>>]

\* the arguments of indicators.calculate_returns(...), lines 208-210
BenchmarkArgs == [start |-> backtesting_start, end |-> backtesting_end]

\* the arguments of strategy_class(...), lines 174-180
ConstructArgs(sfile, kw) ==
    [budget |-> budget, broker |-> alpaca_broker, stats_file |-> sfile, kwargs |-> kw]

\* the arguments the backtest call of a mapping entry gets: lines 164-170 read
\* the entry, lines 193-203 pass what was read
EntryBacktestArgs(params, name, labels, sfile) ==
    BacktestArgs(name, params["backtesting_datasource"], PandasDataOf(params),
                 labels, sfile, params["config"], params["kwargs"])

\* the counters lumibot keeps
CounterNames == {"backtest_loop"}

\* what the counters can be after lumibot ran for a while on behalf of a
\* call: unchanged, or one counter created or grown by a second spent
Accumulated(c) ==
    {c} \cup
    {(n :> ((IF n \in DOMAIN c THEN c[n] ELSE 0) + 1)) @@ c :
        n \in {m \in CounterNames : (IF m \in DOMAIN c THEN c[m] ELSE 0) < MaxElapsed}}

Call(op, name, args, ok) == [op |-> op, name |-> name, args |-> args, ok |-> ok]

Raise(e) == pc' = "error" /\ exc' = e

(* ------------------------------ Init ----------------------------------- *)
Init ==
    /\ pc = "load"
    /\ exc = "none"
    /\ loaded = 0
    /\ pool = [a \in {} |-> InitialLabel]
    /\ mapping = [n \in {} |-> NoEntry]
    /\ strategies \in ArgLists
    /\ live_trading \in BOOLEAN
    /\ i = 1
    /\ strategy_name = "unset"
    /\ strategy_class = "unset"
    /\ backtesting_datasource = "unset"
    /\ pandas_data = "pool"
    /\ kwargs = {}
    /\ config = "unset"
    /\ stats_file = "unset"
    /\ k = 1
    /\ now = 0
    /\ trace = << >>
    /\ runs = << >>
    /\ counters = [n \in {} |-> 0]

(* ---------------------- module-level loading --------------------------- *)
\* lines 42-78, one ticker: read_csv succeeds and the Data object is stored
LoadTicker ==
    /\ pc = "load"
    /\ loaded < Len(tickers)
    /\ pool' = (tickers[loaded + 1] :> InitialLabel) @@ pool
    /\ loaded' = loaded + 1
    /\ UNCHANGED <<counters, pc, exc, mapping, strategies, live_trading, i, strategy_name,
                   locals, k, now, trace>>

\* faulty variant of LoadFails: a file that cannot be read is skipped and the
\* loading loop goes on with the next ticker
LoadFails_Skip ==
    /\ pc = "load"
    /\ loaded < Len(tickers)
    /\ loaded' = loaded + 1
    /\ UNCHANGED <<counters, pc, exc, pool, mapping, strategies, live_trading, i,
                   strategy_name, locals, k, now, trace>>

\* lines 47-54: read_csv raises on a missing or malformed file
LoadFails ==
    /\ pc = "load"
    /\ loaded < Len(tickers)
    /\ Raise("LoadError")
    /\ UNCHANGED <<counters, loaded, pool, mapping, strategies, live_trading, i,
                   strategy_name, locals, k, now, trace>>

\* lines 81-157: the mapping literal is evaluated, the arguments are parsed
BuildMapping ==
    /\ pc = "load"
    /\ loaded = Len(tickers)
    /\ mapping' = Registry
    /\ pc' = "for"
    /\ UNCHANGED <<counters, exc, loaded, pool, strategies, live_trading, i, strategy_name,
                   locals, k, now, trace>>

(* -------------------------- dispatch loop ------------------------------ *)
\* faulty variant of NextName: the list is walked from its end
NextName_Reversed(names, idx) == names[Len(names) - idx + 1]

\* the name the for statement binds on its i-th iteration
NextName(names, idx) == names[idx]

\* line 159: the next name of the list is bound
ForNext ==
    /\ pc = "for"
    /\ i <= Len(strategies)
    /\ strategy_name' = NextName(strategies, i)
    /\ pc' = "resolve"
    /\ UNCHANGED <<counters, exc, loaded, pool, mapping, strategies, live_trading, i,
                   locals, k, now, trace>>

\* line 159: the list is exhausted
ForExit ==
    /\ pc = "for"
    /\ i > Len(strategies)
    /\ pc' = "after_loop"
    /\ UNCHANGED <<counters, exc, loaded, pool, mapping, strategies, live_trading, i,
                   strategy_name, locals, k, now, trace>>

\* faulty variant of UnknownStrategy: an unknown name is skipped and the loop goes on
UnknownStrategy_Skip ==
    /\ pc = "resolve"
    /\ strategy_name \notin DOMAIN mapping
    /\ i' = i + 1
    /\ pc' = "for"
    /\ UNCHANGED <<counters, exc, loaded, pool, mapping, strategies, live_trading,
                   strategy_name, locals, k, now, trace>>

\* lines 160-162: the name is no key of the mapping
UnknownStrategy ==
    /\ pc = "resolve"
    /\ MappingGet(mapping, strategy_name) = NoEntry
    /\ Raise("ValueError: does not exist")
    /\ UNCHANGED <<counters, loaded, pool, mapping, strategies, live_trading, i,
                   strategy_name, locals, k, now, trace>>

\* faulty variant of Branch: a strategy without a backtesting datasource is sent to
\* the live path whatever the flag says
Branch_PerStrategy(live) ==
    IF live \/ backtesting_datasource' = "None" THEN "construct" ELSE "check"

\* lines 173 and 182: the branch taken after the parameters are resolved
Branch(live) == IF live THEN "construct" ELSE "check"

\* lines 160-173: the entry is read into the loop's names, the stats file is named
ResolveParams ==
    /\ pc = "resolve"
    /\ MappingGet(mapping, strategy_name) # NoEntry
    /\ LET strategy_params == MappingGet(mapping, strategy_name)
       IN  /\ strategy_class' = strategy_params["class"]
           /\ backtesting_datasource' = strategy_params["backtesting_datasource"]
           /\ pandas_data' = PandasDataOf(strategy_params)
           /\ kwargs' = strategy_params["kwargs"]
           /\ config' = strategy_params["config"]
           /\ \E t \in now..MaxTime :
                /\ now' = t
                /\ stats_file' = StatsFile(strategy_params["class"], t)
                /\ runs' = Append(runs,
                                  [name |-> strategy_name, position |-> i,
                                   class |-> strategy_params["class"], second |-> t,
                                   live |-> live_trading,
                                   stats_file |-> StatsFile(strategy_params["class"], t)])
    /\ pc' = Branch(live_trading)
    /\ UNCHANGED <<counters, exc, loaded, pool, mapping, strategies, live_trading, i,
                   strategy_name, k, trace>>

(* ----------------------------- live path ------------------------------- *)
\* lines 174-180: the strategy instance is built
Construct ==
    /\ pc = "construct"
    /\ trace' = Append(trace, Call("construct", strategy_name,
                                   ConstructArgs(stats_file, kwargs), TRUE))
    /\ pc' = "add_strategy"
    /\ UNCHANGED <<counters, exc, loaded, pool, mapping, strategies, live_trading, i,
                   strategy_name, locals, k, now>>

\* lines 174-180: the constructor raises
ConstructRaises ==
    /\ pc = "construct"
    /\ trace' = Append(trace, Call("construct", strategy_name,
                                   ConstructArgs(stats_file, kwargs), FALSE))
    /\ Raise("downstream")
    /\ UNCHANGED <<counters, loaded, pool, mapping, strategies, live_trading, i,
                   strategy_name, locals, k, now>>

\* faulty variant of AddStrategy: the trader is run as soon as a strategy is added
AddStrategy_RunNow ==
    /\ pc = "add_strategy"
    /\ trace' = trace \o <<Call("add_strategy", strategy_name,
                                ConstructArgs(stats_file, kwargs), TRUE),
                           Call("run_all", "trader", << >>, TRUE)>>
    /\ i' = i + 1
    /\ pc' = "for"
    /\ UNCHANGED <<counters, exc, loaded, pool, mapping, strategies, live_trading,
                   strategy_name, locals, k, now>>

\* line 181: the instance is registered with the trader; the loop goes on
AddStrategy ==
    /\ pc = "add_strategy"
    /\ trace' = Append(trace, Call("add_strategy", strategy_name,
                                   ConstructArgs(stats_file, kwargs), TRUE))
    /\ i' = i + 1
    /\ pc' = "for"
    /\ UNCHANGED <<counters, exc, loaded, pool, mapping, strategies, live_trading,
                   strategy_name, locals, k, now>>

(* --------------------------- backtest path ----------------------------- *)
\* faulty variant of UnsupportedBacktest: the error is raised inside a try whose
\* finally clause still prints the counters
UnsupportedBacktest_Finally ==
    /\ pc = "check"
    /\ backtesting_datasource = "None"
    /\ exc' = "ValueError: backtesting is not supported"
    /\ pc' = "report"
    /\ UNCHANGED <<counters, loaded, pool, mapping, strategies, live_trading, i,
                   strategy_name, locals, k, now, trace>>

\* faulty variant of UnsupportedBacktest: the datasource is checked only after the
\* labels of the bound pool were rewritten
UnsupportedBacktest_AfterRelabel ==
    /\ pc = "check"
    /\ backtesting_datasource = "None"
    /\ pool' = [a \in DOMAIN pool |-> strategy_name]
    /\ Raise("ValueError: backtesting is not supported")
    /\ UNCHANGED <<counters, loaded, mapping, strategies, live_trading, i,
                   strategy_name, locals, k, now, trace>>

\* lines 183-186: no backtesting datasource
UnsupportedBacktest ==
    /\ pc = "check"
    /\ backtesting_datasource = "None"
    /\ Raise("ValueError: backtesting is not supported")
    /\ UNCHANGED <<counters, loaded, pool, mapping, strategies, live_trading, i,
                   strategy_name, locals, k, now, trace>>

\* faulty variant of SupportedBacktest: the label loop starts at the second dataset
SupportedBacktest_SkipFirst ==
    /\ pc = "check"
    /\ backtesting_datasource # "None"
    /\ pc' = "relabel"
    /\ k' = 2
    /\ UNCHANGED <<counters, exc, loaded, pool, mapping, strategies, live_trading, i,
                   strategy_name, locals, now, trace>>

\* line 183, condition false: on to the label loop
SupportedBacktest ==
    /\ pc = "check"
    /\ backtesting_datasource # "None"
    /\ pc' = "relabel"
    /\ k' = 1
    /\ UNCHANGED <<counters, exc, loaded, pool, mapping, strategies, live_trading, i,
                   strategy_name, locals, now, trace>>

\* line 189 when pandas_data is None: None has no attribute values
RelabelNone ==
    /\ pc = "relabel"
    /\ pandas_data = "None"
    /\ Raise("AttributeError")
    /\ UNCHANGED <<counters, loaded, pool, mapping, strategies, live_trading, i,
                   strategy_name, locals, k, now, trace>>

\* faulty variant of RelabelStep: a label is written only while the dataset
\* still carries the label it was built with
RelabelStep_OnlyUnset ==
    /\ pc = "relabel"
    /\ pandas_data = "pool"
    /\ k <= Len(tickers)
    /\ pool' = [pool EXCEPT ![tickers[k]] =
                    IF @ = InitialLabel THEN NewLabel(strategy_name) ELSE @]
    /\ k' = k + 1
    /\ UNCHANGED <<counters, pc, exc, loaded, mapping, strategies, live_trading, i,
                   strategy_name, locals, now, trace>>

\* lines 189-190, one Data object, in the dict's insertion order
RelabelStep ==
    /\ pc = "relabel"
    /\ pandas_data = "pool"
    /\ k <= Len(tickers)
    /\ pool' = [pool EXCEPT ![tickers[k]] = NewLabel(strategy_name)]
    /\ k' = k + 1
    /\ UNCHANGED <<counters, pc, exc, loaded, mapping, strategies, live_trading, i,
                   strategy_name, locals, now, trace>>

\* line 189: the values are exhausted; line 192
RelabelDone ==
    /\ pc = "relabel"
    /\ pandas_data = "pool"
    /\ k > Len(tickers)
    /\ pc' = "backtest"
    /\ UNCHANGED <<counters, exc, loaded, pool, mapping, strategies, live_trading, i,
                   strategy_name, locals, k, now, trace>>

\* lines 193-205: the backtest runs to its end and returns; lumibot adds the
\* time it spent to its counters
BacktestReturns ==
    /\ pc = "backtest"
    /\ trace' = Append(trace, Call("backtest", strategy_name,
                        BacktestArgs(strategy_name, backtesting_datasource,
                                     pandas_data, pool, stats_file, config, kwargs),
                        TRUE))
    /\ counters' \in Accumulated(counters)
    /\ pc' = "benchmark"
    /\ UNCHANGED <<exc, loaded, pool, mapping, strategies, live_trading, i,
                   strategy_name, locals, k, now>>

\* faulty variant of BacktestRaises: the call sits in a try whose except
\* clause swallows the error, and the script goes on to the benchmark
BacktestRaises_Swallowed ==
    /\ pc = "backtest"
    /\ trace' = Append(trace, Call("backtest", strategy_name,
                        BacktestArgs(strategy_name, backtesting_datasource,
                                     pandas_data, pool, stats_file, config, kwargs),
                        FALSE))
    /\ pc' = "benchmark"
    /\ UNCHANGED <<counters, exc, loaded, pool, mapping, strategies, live_trading, i,
                   strategy_name, locals, k, now>>

\* lines 193-203: the backtest raises
BacktestRaises ==
    /\ pc = "backtest"
    /\ trace' = Append(trace, Call("backtest", strategy_name,
                        BacktestArgs(strategy_name, backtesting_datasource,
                                     pandas_data, pool, stats_file, config, kwargs),
                        FALSE))
    /\ Raise("downstream")
    /\ UNCHANGED <<counters, loaded, pool, mapping, strategies, live_trading, i,
                   strategy_name, locals, k, now>>

\* faulty variant of BenchmarkReturns: the counter report is indented into the
\* loop body and printed after every benchmark
BenchmarkReturns_ReportInLoop ==
    /\ pc = "benchmark"
    /\ trace' = trace \o <<Call("calculate_returns", benchmark_asset,
                                BenchmarkArgs, TRUE),
                           Call("report", "perf_counters", counters, TRUE)>>
    /\ i' = i + 1
    /\ pc' = "for"
    /\ UNCHANGED <<counters, exc, loaded, pool, mapping, strategies, live_trading,
                   strategy_name, locals, k, now>>

\* lines 207-210: the benchmark returns are computed; the loop goes on
BenchmarkReturns ==
    /\ pc = "benchmark"
    /\ trace' = Append(trace, Call("calculate_returns", benchmark_asset,
                                   BenchmarkArgs, TRUE))
    /\ i' = i + 1
    /\ pc' = "for"
    /\ UNCHANGED <<counters, exc, loaded, pool, mapping, strategies, live_trading,
                   strategy_name, locals, k, now>>

\* lines 208-210: calculate_returns raises
BenchmarkRaises ==
    /\ pc = "benchmark"
    /\ trace' = Append(trace, Call("calculate_returns", benchmark_asset,
                                   BenchmarkArgs, FALSE))
    /\ Raise("downstream")
    /\ UNCHANGED <<counters, loaded, pool, mapping, strategies, live_trading, i,
                   strategy_name, locals, k, now>>

(* --------------------------- after the loop ---------------------------- *)
\* lines 212-213: live trading, run_all returns; lumibot adds the time it
\* spent to its counters
RunAll ==
    /\ pc = "after_loop"
    /\ live_trading
    /\ trace' = Append(trace, Call("run_all", "trader", << >>, TRUE))
    /\ counters' \in Accumulated(counters)
    /\ pc' = "report"
    /\ UNCHANGED <<exc, loaded, pool, mapping, strategies, live_trading, i,
                   strategy_name, locals, k, now>>

\* lines 212-213: live trading, run_all raises
RunAllRaises ==
    /\ pc = "after_loop"
    /\ live_trading
    /\ trace' = Append(trace, Call("run_all", "trader", << >>, FALSE))
    /\ Raise("downstream")
    /\ UNCHANGED <<counters, loaded, pool, mapping, strategies, live_trading, i,
                   strategy_name, locals, k, now>>

\* line 212, condition false
NoRunAll ==
    /\ pc = "after_loop"
    /\ ~live_trading
    /\ pc' = "report"
    /\ UNCHANGED <<counters, exc, loaded, pool, mapping, strategies, live_trading, i,
                   strategy_name, locals, k, now, trace>>

\* lines 215-218: the counters are printed, each with its value
Report ==
    /\ pc = "report"
    /\ trace' = Append(trace, Call("report", "perf_counters", counters, TRUE))
    /\ pc' = "done"
    /\ UNCHANGED <<counters, exc, loaded, pool, mapping, strategies, live_trading, i,
                   strategy_name, locals, k, now>>

Next ==
    \/ LoadTicker
    \/ LoadFails
    \/ BuildMapping
    \/ ForNext
    \/ ForExit
    \/ UnknownStrategy
    \/ ResolveParams
    \/ Construct
    \/ ConstructRaises
    \/ AddStrategy
    \/ UnsupportedBacktest
    \/ SupportedBacktest
    \/ RelabelNone
    \/ RelabelStep
    \/ RelabelDone
    \/ BacktestReturns
    \/ BacktestRaises
    \/ BenchmarkReturns
    \/ BenchmarkRaises
    \/ RunAll
    \/ RunAllRaises
    \/ NoRunAll
    \/ Report

Spec == Init /\ [][Next]_vars

(* ===================== observations on the trace ======================= *)
EventsOf(op) == SelectSeq(trace, LAMBDA e : e.op = op)
CountOf(op) == Len(EventsOf(op))
NamesOf(op) == LET events == EventsOf(op) IN [j \in 1..Len(events) |-> events[j].name]
IsPrefix(s, t) == Len(s) <= Len(t) /\ s = SubSeq(t, 1, Len(s))

UnknownError == "ValueError: does not exist"
UnsupportedError == "ValueError: backtesting is not supported"

Known(name) == name \in DOMAIN Registry
\* registry entries without a backtesting datasource
LiveOnly == {n \in DOMAIN Registry : Registry[n]["backtesting_datasource"] = "None"}
\* registry entries with one
Backtestable == DOMAIN Registry \ LiveOnly

HasUnknown == \E j \in 1..Len(strategies) : ~Known(strategies[j])
FirstUnknown ==
    CHOOSE j \in 1..Len(strategies) :
        ~Known(strategies[j]) /\ \A h \in 1..(j - 1) : Known(strategies[h])

(* ------------------------------- C1 ------------------------------------ *)
\* C1 as stated: when the requested list holds a name that is no key of the
\* registry, the invocation makes no backtest call, no benchmark computation,
\* no live registration and no batch run at all, not even for known names
\* that come before the unknown one.
C1_NothingRunsWithUnknown ==
    HasUnknown =>
        /\ CountOf("backtest") = 0
        /\ CountOf("calculate_returns") = 0
        /\ CountOf("add_strategy") = 0
        /\ CountOf("run_all") = 0

\* C1 amended: when the requested list holds a name that is no key of the
\* registry, the batch run is never invoked, and backtest calls, benchmark
\* computations and live registrations are made only for the names before the
\* first unknown one, in list order; the unknown name and the names after it
\* get none.
C1_NothingRunsFromUnknownOn ==
    HasUnknown =>
        LET before == SubSeq(strategies, 1, FirstUnknown - 1)
        IN  /\ CountOf("run_all") = 0
            /\ IsPrefix(NamesOf("backtest"), before)
            /\ CountOf("calculate_returns") <= Len(before)
            /\ IsPrefix(NamesOf("construct"), before)
            /\ IsPrefix(NamesOf("add_strategy"), before)

\* a batch stopped by an unknown name after an earlier name was backtested
C1_Witness ==
    /\ pc = "error"
    /\ exc = UnknownError
    /\ ~live_trading
    /\ i = 2
    /\ Len(strategies) = 3
    /\ CountOf("backtest") = 1
    /\ CountOf("calculate_returns") = 1

(* ------------------------------- C2 ------------------------------------ *)
\* C2: once a dispatch has raised the unknown-strategy or the
\* unsupported-backtest error the script is stopped at that dispatch: the
\* failing dispatch has made no construction, backtest or benchmark call, no
\* later name is dispatched, run_all is not invoked and the counters are not
\* reported.
C2_FailFast ==
    exc \in {UnknownError, UnsupportedError} =>
        /\ pc = "error"
        /\ i \in 1..Len(strategies)
        /\ strategy_name = strategies[i]
        /\ CountOf("construct") = (IF live_trading THEN i - 1 ELSE 0)
        /\ CountOf("add_strategy") = (IF live_trading THEN i - 1 ELSE 0)
        /\ CountOf("backtest") = (IF live_trading THEN 0 ELSE i - 1)
        /\ CountOf("calculate_returns") = (IF live_trading THEN 0 ELSE i - 1)
        /\ CountOf("run_all") = 0
        /\ CountOf("report") = 0

\* the second of three names raised unsupported-backtest; the third waits
C2_Witness ==
    /\ exc = UnsupportedError
    /\ pc = "error"
    /\ i = 2
    /\ Len(strategies) = 3
    /\ Known(strategies[3])
    /\ CountOf("backtest") = 1

(* ------------------------------- C3 ------------------------------------ *)
\* the labels and the trace a live-only name leaves behind in backtest mode
C3_BacktestRefused ==
    ~live_trading =>
        /\ \A j \in 1..Len(trace) :
               trace[j].op = "backtest" => trace[j].name \notin LiveOnly
        /\ \A a \in DOMAIN pool : pool[a] \notin LiveOnly
        /\ (pc \in {"relabel", "backtest", "benchmark"} => strategy_name \notin LiveOnly)
        /\ (exc = UnsupportedError => strategy_name \in LiveOnly)

\* the registrations a live run has made when it is back at the loop head
C3_LiveRegisters ==
    live_trading =>
        /\ exc # UnsupportedError
        /\ (pc = "for" =>
               /\ NamesOf("construct") = SubSeq(strategies, 1, i - 1)
               /\ NamesOf("add_strategy") = SubSeq(strategies, 1, i - 1))
        /\ (pc = "add_strategy" /\ strategy_name \in LiveOnly =>
               /\ NamesOf("construct") = SubSeq(strategies, 1, i)
               /\ NamesOf("add_strategy") = SubSeq(strategies, 1, i - 1))

\* the step a live-only name takes at the capability check
C3_CheckStep ==
    (pc = "check" /\ strategy_name \in LiveOnly) =>
        /\ pc' = "error"
        /\ exc' = UnsupportedError
        /\ pool' = pool
        /\ trace' = trace

\* C3: an entry without a backtesting datasource (intraday_momentum,
\* fast_trading), dispatched with the live flag off, fails with the
\* unsupported-backtest error before any label is rewritten and before the
\* backtest is invoked; dispatched with the live flag on, it is constructed
\* and registered with the trader exactly once.
C3_LiveOnlyEntries ==
    /\ [](C3_BacktestRefused /\ C3_LiveRegisters)
    /\ [][C3_CheckStep]_vars

\* fast_trading was refused a backtest after another strategy was backtested
C3_Witness ==
    /\ ~live_trading
    /\ exc = UnsupportedError
    /\ strategy_name = "fast_trading"
    /\ i = 2
    /\ \A a \in DOMAIN pool : pool[a] = strategies[1]

(* ------------------------------- C4 ------------------------------------ *)
AllKnown == \A j \in 1..Len(strategies) : Known(strategies[j])

\* C4: in a live invocation whose names are all registry keys, one instance
\* per requested occurrence is registered, run_all is invoked once and only
\* after the last registration, and no backtest or benchmark call is made.
C4_DeferredLiveRun ==
    (live_trading /\ AllKnown) =>
        /\ CountOf("backtest") = 0
        /\ CountOf("calculate_returns") = 0
        /\ CountOf("run_all") <= 1
        /\ IsPrefix(NamesOf("add_strategy"), strategies)
        /\ \A j \in 1..Len(trace) :
               trace[j].op = "run_all" =>
                   /\ NamesOf("add_strategy") = strategies
                   /\ \A h \in 1..Len(trace) : trace[h].op = "add_strategy" => h < j
        /\ (pc \in {"report", "done"} =>
               /\ CountOf("run_all") = 1
               /\ NamesOf("add_strategy") = strategies)

\* scenario C has run to its end
C4_Witness ==
    /\ live_trading
    /\ pc = "done"
    /\ strategies = <<"momentum_pandas", "diversification">>
    /\ CountOf("add_strategy") = 2
    /\ CountOf("run_all") = 1

(* ------------------------------- C5 ------------------------------------ *)
LiveCalls == CountOf("construct") + CountOf("add_strategy") + CountOf("run_all")
BacktestCalls == CountOf("backtest") + CountOf("calculate_returns")

\* C5: one invocation never has both a live registration or batch run and a
\* backtest call or benchmark computation behind it; which of the two kinds
\* it has is decided by the live flag.
C5_Homogeneous ==
    /\ ~(LiveCalls > 0 /\ BacktestCalls > 0)
    /\ (live_trading => BacktestCalls = 0)
    /\ (~live_trading => LiveCalls = 0)

\* a backtest invocation past a live-only name's neighbour: two backtests made
C5_Witness ==
    /\ ~live_trading
    /\ CountOf("backtest") = 2
    /\ pc = "resolve"
    /\ strategy_name \in LiveOnly

(* ------------------------------- C6 ------------------------------------ *)
\* a name whose dispatch raises before it reaches lumibot
FailsDispatch(name) ==
    \/ ~Known(name)
    \/ /\ ~live_trading
       /\ \/ name \in LiveOnly
          \/ PandasDataOf(Registry[name]) = "None"

\* the requested list cut before its first failing name
Truncated ==
    IF \E j \in 1..Len(strategies) : FailsDispatch(strategies[j])
    THEN SubSeq(strategies, 1,
                (CHOOSE j \in 1..Len(strategies) :
                    /\ FailsDispatch(strategies[j])
                    /\ \A h \in 1..(j - 1) : ~FailsDispatch(strategies[h])) - 1)
    ELSE strategies

DispatchedNames == IF live_trading THEN NamesOf("construct") ELSE NamesOf("backtest")

\* C6: the run names passed to backtest (backtest mode) or to construction and
\* registration (live mode) are the requested list, in order and with its
\* repetitions, cut before the first failing name.
C6_OrderAndDuplicates ==
    LET dispatched == DispatchedNames
        expected == Truncated
    IN  /\ IsPrefix(dispatched, expected)
        /\ (live_trading => IsPrefix(NamesOf("add_strategy"), dispatched))
        /\ (pc = "for" => dispatched = SubSeq(strategies, 1, i - 1))
        /\ ((pc = "done" \/ (pc = "error" /\ exc \notin {"downstream", "LoadError"}))
               => dispatched = expected)

\* a list with a repeated name was backtested to its end
C6_Witness ==
    /\ ~live_trading
    /\ pc = "done"
    /\ strategies = <<"simple", "momentum_pandas", "simple">>
    /\ NamesOf("backtest") = strategies

(* ------------------------------- C7 ------------------------------------ *)
\* every dataset of the pool carries the label n
AllLabelled(labels, n) ==
    /\ DOMAIN labels = {tickers[j] : j \in 1..Len(tickers)}
    /\ \A a \in DOMAIN labels : labels[a] = n

\* C7: when backtest is invoked for name n, the pool passed to it has every
\* dataset labelled n, and no label is written between the label loop and the
\* call.
C7_LabelsReboundBeforeBacktest ==
    /\ [](/\ (pc = "backtest" => pandas_data = "pool" /\ AllLabelled(pool, strategy_name))
          /\ \A j \in 1..Len(trace) :
                 trace[j].op = "backtest" =>
                     /\ trace[j].args.pandas_data = "pool"
                     /\ AllLabelled(trace[j].args.labels, trace[j].name))
    /\ [][pc = "backtest" => pool' = pool]_vars

\* the second backtest of a batch was called with the second name's labels
C7_Witness ==
    /\ CountOf("backtest") = 2
    /\ trace[Len(trace)].op = "backtest"
    /\ trace[Len(trace)].name = "diversification"
    /\ trace[1].name = "momentum_pandas"
    /\ AllLabelled(pool, "diversification")

(* ------------------------------- C8 ------------------------------------ *)
CompletedBacktests == Len(SelectSeq(trace, LAMBDA e : e.op = "backtest" /\ e.ok))

\* C8: each completed backtest is followed, before the next backtest, by one
\* benchmark computation for SPY over the backtest's window; benchmarks never
\* outnumber completed backtests and equal them after each dispatch; a
\* single-name backtest invocation makes one backtest call with budget 40000
\* and one SPY benchmark computation.
C8_BenchmarkAfterEachBacktest ==
    /\ \A j \in 1..Len(trace) :
           trace[j].op = "calculate_returns" =>
               /\ trace[j].name = "SPY"
               /\ j > 1
               /\ trace[j - 1].op = "backtest"
               /\ trace[j - 1].ok
               /\ trace[j].args.start = trace[j - 1].args.start
               /\ trace[j].args.end = trace[j - 1].args.end
    /\ \A j \in 1..(Len(trace) - 1) :
           trace[j].op = "backtest" => trace[j].ok /\ trace[j + 1].op = "calculate_returns"
    /\ CountOf("calculate_returns") <= CompletedBacktests
    /\ (pc \in {"for", "done"} => CountOf("calculate_returns") = CompletedBacktests)
    /\ (pc = "done" /\ ~live_trading /\ Len(strategies) = 1 =>
           /\ CountOf("backtest") = 1
           /\ EventsOf("backtest")[1].args.budget = 40000
           /\ CountOf("calculate_returns") = 1
           /\ EventsOf("calculate_returns")[1].name = "SPY")

\* scenario A has run to its end
C8_Witness ==
    /\ pc = "done"
    /\ ~live_trading
    /\ strategies = <<"buy_and_hold">>
    /\ CountOf("backtest") = 1
    /\ CountOf("calculate_returns") = 1

(* ------------------------------- C9 ------------------------------------ *)
WithoutKey(params, key) == [f \in DOMAIN params \ {key} |-> params[f]]

\* C9: the backtest call made for an entry whose cache-disable flag is set
\* differs from the call the same entry would get without the flag, that is,
\* the dispatcher reads backtesting_cache and conveys it to backtest.
C9_CacheFlagConveyed ==
    \A j \in 1..Len(trace) :
        (trace[j].op = "backtest"
         /\ "backtesting_cache" \in DOMAIN Registry[trace[j].name]) =>
            trace[j].args #
                EntryBacktestArgs(WithoutKey(Registry[trace[j].name], "backtesting_cache"),
                                  trace[j].name, trace[j].args.labels,
                                  trace[j].args.stats_file)

(* ------------------------------- C10 ----------------------------------- *)
\* C10: an entry with a backtesting datasource, dispatched with the live flag
\* off, passes the capability check and reaches the backtest call: nothing
\* fails between the check and the call.
C10_BacktestableReachesBacktest ==
    (~live_trading /\ pc = "error" /\ strategy_name \in Backtestable) =>
        /\ exc = "downstream"
        /\ CountOf("backtest") = i

(* ------------------------------- C11 ----------------------------------- *)
\* the name of the most recent backtest call
LastBacktested == EventsOf("backtest")[CountOf("backtest")].name

\* C11: outside the label loop and once a backtest was dispatched, every
\* dataset of the pool carries one and the same label, the name of the most
\* recent backtest dispatch, so after A then B (A # B) all carry B and none A;
\* a live invocation never changes a label.
C11_SharedLabelFollowsLastDispatch ==
    /\ [](/\ (CountOf("backtest") > 0 /\ pc \notin {"relabel", "backtest"})
                => AllLabelled(pool, LastBacktested)
          /\ (live_trading /\ loaded = Len(tickers)) => AllLabelled(pool, InitialLabel))
    /\ [][(live_trading /\ pc # "load") => pool' = pool]_vars

\* momentum_pandas then diversification were backtested: no dataset is
\* momentum_pandas's any more
C11_Witness ==
    /\ pc = "for"
    /\ CountOf("backtest") = 2
    /\ EventsOf("backtest")[1].name = "momentum_pandas"
    /\ EventsOf("backtest")[2].name = "diversification"
    /\ AllLabelled(pool, "diversification")

(* ------------------------------- C12 ----------------------------------- *)
\* logs/strategy_<StrategyTypeName>_<unixTimestamp>.csv
C12_Path(typeName, second) ==
    "logs/strategy_" \o typeName \o "_" \o ToString(second) \o ".csv"

\* the stats file each lumibot call was given is the one of its run
C12_PassedOn ==
    LET backtests == EventsOf("backtest")
        constructs == EventsOf("construct")
    IN  /\ \A j \in 1..Len(backtests) :
               backtests[j].args.stats_file = runs[j].stats_file
        /\ \A j \in 1..Len(constructs) :
               constructs[j].args.stats_file = runs[j].stats_file

\* C12: the stats-file path of a run is fixed by its strategy type name and
\* the Unix second it started in: two runs of one type in one second get the
\* same path, two runs get different paths exactly when their type names or
\* their seconds differ, and the requested name, the live flag and the
\* position in the batch play no part.
C12_StatsFileNaming ==
    /\ \A a \in 1..Len(runs) :
           runs[a].stats_file = C12_Path(runs[a].class, runs[a].second)
    /\ \A a, b \in 1..Len(runs) :
           (runs[a].stats_file # runs[b].stats_file)
               <=> (runs[a].class # runs[b].class \/ runs[a].second # runs[b].second)
    /\ C12_PassedOn

\* two backtests of one strategy type started in the same second and were
\* given the same path; a third, a second later, got another
C12_Witness ==
    /\ ~live_trading
    /\ CountOf("backtest") = 3
    /\ runs[1].class = runs[2].class
    /\ runs[1].second = runs[2].second
    /\ runs[1].position # runs[2].position
    /\ EventsOf("backtest")[1].args.stats_file = EventsOf("backtest")[2].args.stats_file
    /\ runs[3].class = runs[1].class
    /\ runs[3].second # runs[1].second
    /\ EventsOf("backtest")[3].args.stats_file # EventsOf("backtest")[1].args.stats_file

(* ------------------------------- C13 ----------------------------------- *)
\* the report is the last thing a run without error does, and it does it once
C13_ReportedOnceAtEnd ==
    /\ CountOf("report") <= 1
    /\ (CountOf("report") = 1 <=> pc = "done")
    /\ (pc = "done" =>
           /\ exc = "none"
           /\ i = Len(strategies) + 1
           /\ trace[Len(trace)].op = "report"
           /\ trace[Len(trace)].args = counters
           /\ (live_trading =>
                  /\ Len(trace) > 1
                  /\ trace[Len(trace) - 1].op = "run_all"
                  /\ trace[Len(trace) - 1].ok))

\* no step removes a counter or lowers its value
C13_NeverReset ==
    \A n \in DOMAIN counters :
        /\ n \in DOMAIN counters'
        /\ counters'[n] >= counters[n]

\* the steps of the script itself leave the counters alone
C13_LoopKeepsCounters ==
    pc \in {"for", "resolve", "check", "relabel", "benchmark", "construct",
            "add_strategy", "report"}
        => counters' = counters

\* C13: an invocation that ends without error prints the counters exactly
\* once, after the last dispatch and, in live mode, after run_all returned; no
\* step of the dispatch loop resets or removes a counter, so every counter is
\* non-decreasing from one iteration to the next.
C13_CountersReportedOnceNeverReset ==
    /\ []C13_ReportedOnceAtEnd
    /\ [][C13_NeverReset]_vars
    /\ [][C13_LoopKeepsCounters]_vars

\* two backtests ran, the time they took was accumulated and printed at the end
C13_Witness ==
    /\ pc = "done"
    /\ ~live_trading
    /\ CountOf("backtest") = 2
    /\ CountOf("report") = 1
    /\ "backtest_loop" \in DOMAIN counters
    /\ counters["backtest_loop"] = 1
    /\ trace[Len(trace)].args = counters

(* ------------------------------- C14 ----------------------------------- *)
AllTickers == {tickers[j] : j \in 1..Len(tickers)}

\* the script has got past the loading loop
PastLoading == pc # "load" /\ exc # "LoadError"

\* C14: the datasets of all five instruments are loaded before the first
\* dispatch step, whatever strategies are requested and whatever the live
\* flag; when the loading of one fails the process stops with no dispatch, no
\* backtest call, no live registration and no batch run.
C14_EagerAllOrNothingLoad ==
    /\ PastLoading =>
           /\ loaded = Len(tickers)
           /\ DOMAIN pool = AllTickers
    /\ ~PastLoading =>
           /\ strategy_name = "unset"
           /\ i = 1
           /\ runs = << >>
           /\ trace = << >>
           /\ DOMAIN mapping = {}
    /\ exc = "LoadError" =>
           /\ pc = "error"
           /\ loaded < Len(tickers)
           /\ DOMAIN pool = {tickers[j] : j \in 1..loaded}

\* the fourth file could not be read: three datasets loaded, nothing dispatched
C14_Witness ==
    /\ exc = "LoadError"
    /\ pc = "error"
    /\ loaded = 3
    /\ live_trading
    /\ strategies = <<"debt_trading">>
    /\ trace = << >>

(* ------------------------------- C15 ----------------------------------- *)
\* the state a failed lumibot call leaves the script in
C15_StoppedAt(last) ==
    /\ pc = "error"
    /\ exc = "downstream"
    /\ CountOf("report") = 0
    /\ last.op \in {"backtest", "calculate_returns", "construct", "run_all"}
    /\ (last.op = "run_all" =>
           /\ CountOf("run_all") = 1
           /\ i = Len(strategies) + 1)
    /\ (last.op # "run_all" =>
           /\ CountOf("run_all") = 0
           /\ i \in 1..Len(strategies)
           /\ Len(runs) = i)
    /\ (last.op = "backtest" =>
           /\ last.name = strategies[i]
           /\ CountOf("backtest") = i
           /\ CountOf("calculate_returns") = i - 1)
    /\ (last.op = "calculate_returns" =>
           /\ CountOf("backtest") = i
           /\ CountOf("calculate_returns") = i)
    /\ (last.op = "construct" =>
           /\ last.name = strategies[i]
           /\ CountOf("construct") = i
           /\ CountOf("add_strategy") = i - 1)

\* C15: when the backtest, the benchmark calculation, a strategy constructor
\* or run_all fails, the script does nothing more: the failed call is its last
\* call and is not made again, a failed backtest gets no benchmark, no later
\* name is dispatched, run_all is not invoked and the counters are not
\* reported.
C15_DownstreamFailuresPropagate ==
    /\ \A j \in 1..Len(trace) :
           ~trace[j].ok => (j = Len(trace) /\ C15_StoppedAt(trace[j]))
    /\ exc = "downstream" => (Len(trace) > 0 /\ ~trace[Len(trace)].ok)

\* the second of three backtests raised; the third name was never dispatched
C15_Witness ==
    /\ exc = "downstream"
    /\ ~live_trading
    /\ Len(strategies) = 3
    /\ i = 2
    /\ trace[Len(trace)].op = "backtest"
    /\ ~trace[Len(trace)].ok
    /\ CountOf("calculate_returns") = 1

(* ------------------------------- C16 ----------------------------------- *)
\* the dataset collection written in the mapping literal for a name
C16_EntryPool(name) ==
    IF "pandas_data" \in DOMAIN Registry[name]
    THEN Registry[name]["pandas_data"]
    ELSE "None"

\* the mapping and the keys of the pool as they are once loading is over, and
\* the collection each dispatch has bound
C16_Bound ==
    PastLoading =>
        /\ mapping = Registry
        /\ DOMAIN pool = AllTickers
        /\ (pc \in {"construct", "add_strategy", "check", "relabel", "backtest",
                    "benchmark"} => pandas_data = C16_EntryPool(strategy_name))
        /\ \A j \in 1..Len(trace) :
               trace[j].op = "backtest" =>
                   trace[j].args.pandas_data = C16_EntryPool(trace[j].name)

\* a step of the script after loading
C16_Frame ==
    PastLoading => (mapping' = mapping /\ DOMAIN pool' = DOMAIN pool)

\* C16: dispatching never adds, removes or changes an entry of the mapping,
\* nor a key of the dataset pool, and the dataset collection of a dispatch is
\* the one written in that strategy's entry whatever was dispatched before:
\* the loop's rebinding of the name pandas_data does not reach later
\* dispatches.
C16_RegistryReadOnly ==
    /\ []C16_Bound
    /\ [][C16_Frame]_vars

\* a live dispatch of momentum_pandas binds the pool although the dispatch of
\* intraday_momentum before it had bound the name pandas_data to None
C16_Witness ==
    /\ live_trading
    /\ pc = "construct"
    /\ i = 2
    /\ strategies[1] = "intraday_momentum"
    /\ strategy_name = "momentum_pandas"
    /\ pandas_data = "pool"

====
